---------------------------- MODULE Spec2Model ----------------------------
(***************************************************************************)
(* Model of utils/src/lib.rs: the XOR cryptanalysis helpers.               *)
(*                                                                         *)
(* Every function of the library is pure, so each one is an operator       *)
(* computed the way the code computes it, and the state machine is a       *)
(* caller: its state is the pending call (fn, args), the caller's position *)
(* (pc) and the outcome of the call (ret).  A Rust panic is an outcome:    *)
(* ret is Panic(message) and no value is returned.                         *)
(*                                                                         *)
(* A Vec<u8> / &[u8] is a sequence of numbers in 0..255.  A String / &str  *)
(* is the sequence of its chars (Unicode scalar values); the conversions   *)
(* between the two (String::from_utf8, String::from_utf8_lossy,            *)
(* String::into_bytes) are modelled by the UTF-8 coding they perform.      *)
(***************************************************************************)
EXTENDS Integers, Sequences, FiniteSets, TLC

VARIABLES pc, fn, args, ret

vars == <<pc, fn, args, ret>>

----------------------------------------------------------------------------
(* Outcomes of a call *)

Ok(v) == [panicked |-> FALSE, val |-> v]

Panic(msg) == [panicked |-> TRUE, val |-> msg]

NoRet == [panicked |-> FALSE, val |-> <<>>]

LengthsNotEqual == "Lengths are not equal"

----------------------------------------------------------------------------
(* u8 arithmetic *)

Bit(b, k) == (b \div (2 ^ k)) % 2

\* b1 ^ b2 on u8
BitXor(b1, b2) ==
    ((Bit(b1, 0) + Bit(b2, 0)) % 2)
  + ((Bit(b1, 1) + Bit(b2, 1)) % 2) * 2
  + ((Bit(b1, 2) + Bit(b2, 2)) % 2) * 4
  + ((Bit(b1, 3) + Bit(b2, 3)) % 2) * 8
  + ((Bit(b1, 4) + Bit(b2, 4)) % 2) * 16
  + ((Bit(b1, 5) + Bit(b2, 5)) % 2) * 32
  + ((Bit(b1, 6) + Bit(b2, 6)) % 2) * 64
  + ((Bit(b1, 7) + Bit(b2, 7)) % 2) * 128

\* u8::count_ones
RECURSIVE count_ones(_)
count_ones(b) == IF b = 0 THEN 0 ELSE (b % 2) + count_ones(b \div 2)

RECURSIVE SumSeq(_)
SumSeq(s) == IF s = <<>> THEN 0 ELSE Head(s) + SumSeq(Tail(s))

Min(a, b) == IF a < b THEN a ELSE b

\* All sequences over S of length lo..hi
SeqsOf(S, lo, hi) == UNION {[1..n -> S] : n \in lo..hi}

----------------------------------------------------------------------------
(* fixed_xor, edit_distance *)

\* fixed_xor without its length check: zip stops at the shorter input
fixed_xor_truncating(bytes_1, bytes_2) ==
    Ok([i \in 1..Min(Len(bytes_1), Len(bytes_2)) |-> BitXor(bytes_1[i], bytes_2[i])])

fixed_xor(bytes_1, bytes_2) ==
    IF Len(bytes_1) # Len(bytes_2)
    THEN Panic(LengthsNotEqual)
    ELSE Ok([i \in 1..Len(bytes_1) |-> BitXor(bytes_1[i], bytes_2[i])])

\* edit_distance counting the differing bytes instead of the differing bits
edit_distance_bytes(bytes_1, bytes_2) ==
    IF Len(bytes_1) # Len(bytes_2)
    THEN Panic(LengthsNotEqual)
    ELSE LET x == fixed_xor(bytes_1, bytes_2)
         IN  IF x.panicked THEN x
             ELSE Ok(SumSeq([i \in 1..Len(x.val) |-> IF x.val[i] = 0 THEN 0 ELSE 1]))

edit_distance(bytes_1, bytes_2) ==
    IF Len(bytes_1) # Len(bytes_2)
    THEN Panic(LengthsNotEqual)
    ELSE LET x == fixed_xor(bytes_1, bytes_2)
         IN  IF x.panicked THEN x
             ELSE Ok(SumSeq([i \in 1..Len(x.val) |-> count_ones(x.val[i])]))

----------------------------------------------------------------------------
(* Callers of fixed_xor and edit_distance *)

MaxDistLen == 2

DistBytes == {0, 1, 116, 119, 255}

\* "this is a test" and "wokka wokka!!!" as bytes (tests::test_edit_distance)
test_s1 == <<116, 104, 105, 115, 32, 105, 115, 32, 97, 32, 116, 101, 115, 116>>

test_s2 == <<119, 111, 107, 107, 97, 32, 119, 111, 107, 107, 97, 33, 33, 33>>

DistInputs ==
    LET S == SeqsOf(DistBytes, 0, MaxDistLen)
    IN  {[bytes_1 |-> a, bytes_2 |-> b] : a \in S, b \in S}
        \cup {[bytes_1 |-> test_s1, bytes_2 |-> test_s2],
              [bytes_1 |-> test_s1, bytes_2 |-> SubSeq(test_s2, 1, 13)]}

InitDist ==
    /\ pc = "ready"
    /\ fn = "none"
    /\ args \in DistInputs
    /\ ret = NoRet

CallFixedXor ==
    /\ pc = "ready"
    /\ pc' = "done"
    /\ fn' = "fixed_xor"
    /\ ret' = fixed_xor(args.bytes_1, args.bytes_2)
    /\ UNCHANGED args

CallEditDistance ==
    /\ pc = "ready"
    /\ pc' = "done"
    /\ fn' = "edit_distance"
    /\ ret' = edit_distance(args.bytes_1, args.bytes_2)
    /\ UNCHANGED args

NextDist == CallFixedXor \/ CallEditDistance

SpecDist == InitDist /\ [][NextDist]_vars

\* Number of bit positions in which two equal-length byte sequences differ
DifferingBits(a, b) ==
    Cardinality({p \in (1..Len(a)) \X (0..7) : Bit(a[p[1]], p[2]) # Bit(b[p[1]], p[2])})

\* C1: for equal-length inputs edit_distance returns the number of differing
\* bits; the bytes of "this is a test" and "wokka wokka!!!" give 37.
C1_EditDistanceCountsDifferingBits ==
    (pc = "done" /\ fn = "edit_distance" /\ Len(args.bytes_1) = Len(args.bytes_2))
        => /\ ~ret.panicked
           /\ ret.val = DifferingBits(args.bytes_1, args.bytes_2)
           /\ (args.bytes_1 = test_s1 /\ args.bytes_2 = test_s2) => ret.val = 37

C1_Witness ==
    /\ pc = "done" /\ fn = "edit_distance"
    /\ args.bytes_1 = test_s1 /\ args.bytes_2 = test_s2
    /\ ret = Ok(37)

\* C2: when the lengths differ, edit_distance and fixed_xor fail with the
\* length-mismatch panic and return no value (no truncation, no padding).
C2_LengthMismatchPanics ==
    (pc = "done" /\ fn \in {"edit_distance", "fixed_xor"}
        /\ Len(args.bytes_1) # Len(args.bytes_2))
        => ret.panicked /\ ret.val = LengthsNotEqual

C2_Witness ==
    /\ pc = "done" /\ fn = "fixed_xor"
    /\ Len(args.bytes_1) = 2 /\ Len(args.bytes_2) = 1
    /\ ret = Panic(LengthsNotEqual)

----------------------------------------------------------------------------
(* UTF-8: String::from_utf8, String::from_utf8_lossy, String::into_bytes    *)
(* (std; called at lines 31, 78 and 95)                                     *)

REPLACEMENT_CHARACTER == 65533

\* get(bytes, i) of the std decoder: 0 past the end
safe_get(bytes, i) == IF i <= Len(bytes) THEN bytes[i] ELSE 0

IsCont(b) == b >= 128 /\ b <= 191

\* The second byte of a 3-byte sequence, by its first byte
Second3Ok(first, second) ==
    \/ first = 224 /\ second >= 160 /\ second <= 191
    \/ first >= 225 /\ first <= 236 /\ IsCont(second)
    \/ first = 237 /\ second >= 128 /\ second <= 159
    \/ first >= 238 /\ first <= 239 /\ IsCont(second)

\* The second byte of a 4-byte sequence, by its first byte
Second4Ok(first, second) ==
    \/ first = 240 /\ second >= 144 /\ second <= 191
    \/ first >= 241 /\ first <= 243 /\ IsCont(second)
    \/ first = 244 /\ second >= 128 /\ second <= 143

\* One step of the decoder at position i: the char decoded (or valid = FALSE
\* for a maximal invalid prefix) and the number of bytes it takes.
Utf8Step(bytes, i) ==
    LET b  == bytes[i]
        c1 == safe_get(bytes, i + 1)
        c2 == safe_get(bytes, i + 2)
        c3 == safe_get(bytes, i + 3)
        Bad(n) == [valid |-> FALSE, ch |-> REPLACEMENT_CHARACTER, width |-> n]
        Good(c, n) == [valid |-> TRUE, ch |-> c, width |-> n]
    IN  IF b < 128 THEN Good(b, 1)
        ELSE IF b >= 194 /\ b <= 223 THEN
            IF IsCont(c1) THEN Good((b - 192) * 64 + (c1 - 128), 2) ELSE Bad(1)
        ELSE IF b >= 224 /\ b <= 239 THEN
            IF ~Second3Ok(b, c1) THEN Bad(1)
            ELSE IF ~IsCont(c2) THEN Bad(2)
            ELSE Good((b - 224) * 4096 + (c1 - 128) * 64 + (c2 - 128), 3)
        ELSE IF b >= 240 /\ b <= 244 THEN
            IF ~Second4Ok(b, c1) THEN Bad(1)
            ELSE IF ~IsCont(c2) THEN Bad(2)
            ELSE IF ~IsCont(c3) THEN Bad(3)
            ELSE Good((b - 240) * 262144 + (c1 - 128) * 4096 + (c2 - 128) * 64
                      + (c3 - 128), 4)
        ELSE Bad(1)

RECURSIVE Utf8Chunks(_, _)
Utf8Chunks(bytes, i) ==
    IF i > Len(bytes) THEN <<>>
    ELSE LET st == Utf8Step(bytes, i)
         IN  <<st>> \o Utf8Chunks(bytes, i + st.width)

\* String::from_utf8_lossy: every maximal invalid prefix becomes U+FFFD
RECURSIVE CharsOf(_)
CharsOf(cs) == IF cs = <<>> THEN <<>> ELSE <<Head(cs).ch>> \o CharsOf(Tail(cs))

from_utf8_lossy(bytes) == CharsOf(Utf8Chunks(bytes, 1))

\* String::from_utf8: Err when the bytes are not UTF-8
from_utf8(bytes) ==
    LET cs == Utf8Chunks(bytes, 1)
    IN  IF \E j \in 1..Len(cs) : ~cs[j].valid
        THEN [is_err |-> TRUE, val |-> <<>>]
        ELSE [is_err |-> FALSE, val |-> CharsOf(cs)]

\* char::encode_utf8
encode_utf8(c) ==
    IF c < 128 THEN <<c>>
    ELSE IF c < 2048 THEN <<192 + (c \div 64), 128 + (c % 64)>>
    ELSE IF c < 65536 THEN
        <<224 + (c \div 4096), 128 + ((c \div 64) % 64), 128 + (c % 64)>>
    ELSE <<240 + (c \div 262144), 128 + ((c \div 4096) % 64),
           128 + ((c \div 64) % 64), 128 + (c % 64)>>

\* String::into_bytes
RECURSIVE into_bytes(_)
into_bytes(str) ==
    IF str = <<>> THEN <<>> ELSE encode_utf8(Head(str)) \o into_bytes(Tail(str))

FromUtf8Error == "called Result::unwrap() on an Err value: FromUtf8Error"

bytes_to_plaintext(bytes) ==
    LET r == from_utf8(bytes)
    IN  IF r.is_err THEN Panic(FromUtf8Error) ELSE Ok(r.val)

----------------------------------------------------------------------------
(* count_freq_score, break_single_char_xor *)

\* LETTER_FREQ in units of 10^-5 (A-Z, then the space character).  The code
\* adds the 27 products in f64; the model adds them exactly.
LETTER_FREQ ==
    <<8167, 1492, 2782, 4253, 12702, 2228, 2015,
      6094, 6966, 153, 772, 4025, 2406, 6749,
      7507, 1929, 95, 5987, 6327, 9056, 2758,
      978, 2360, 150, 1974, 74, 19181>>

\* The slot of counts a char adds to, or -1 for the chars that are ignored
Slot(c) ==
    IF c >= 97 /\ c <= 122 THEN c - 97
    ELSE IF c >= 65 /\ c <= 90 THEN c - 65
    ELSE IF c = 32 THEN 26
    ELSE -1

\* vec![0_u32; 27]: counts[i] of the code is counts[i + 1] here
ZeroCounts ==
    <<0, 0, 0, 0, 0, 0, 0, 0, 0, 0, 0, 0, 0, 0,
      0, 0, 0, 0, 0, 0, 0, 0, 0, 0, 0, 0, 0>>

\* plaintext.chars().for_each(|c| match c { ... counts[..] += 1 ... })
RECURSIVE CountChars(_, _)
CountChars(plaintext, counts) ==
    IF plaintext = <<>> THEN counts
    ELSE LET slot == Slot(Head(plaintext))
         IN  CountChars(Tail(plaintext),
                 IF slot < 0 THEN counts ELSE [counts EXCEPT ![slot + 1] = @ + 1])

\* for i in 0..27 { score += (counts[i] as f64) * LETTER_FREQ[i]; }, unrolled
WeightedSum(counts) ==
      counts[1] * LETTER_FREQ[1] + counts[2] * LETTER_FREQ[2] + counts[3] * LETTER_FREQ[3]
    + counts[4] * LETTER_FREQ[4] + counts[5] * LETTER_FREQ[5] + counts[6] * LETTER_FREQ[6]
    + counts[7] * LETTER_FREQ[7] + counts[8] * LETTER_FREQ[8] + counts[9] * LETTER_FREQ[9]
    + counts[10] * LETTER_FREQ[10] + counts[11] * LETTER_FREQ[11] + counts[12] * LETTER_FREQ[12]
    + counts[13] * LETTER_FREQ[13] + counts[14] * LETTER_FREQ[14] + counts[15] * LETTER_FREQ[15]
    + counts[16] * LETTER_FREQ[16] + counts[17] * LETTER_FREQ[17] + counts[18] * LETTER_FREQ[18]
    + counts[19] * LETTER_FREQ[19] + counts[20] * LETTER_FREQ[20] + counts[21] * LETTER_FREQ[21]
    + counts[22] * LETTER_FREQ[22] + counts[23] * LETTER_FREQ[23] + counts[24] * LETTER_FREQ[24]
    + counts[25] * LETTER_FREQ[25] + counts[26] * LETTER_FREQ[26] + counts[27] * LETTER_FREQ[27]

count_freq_score(plaintext) == WeightedSum(CountChars(plaintext, ZeroCounts))

\* bytes.iter().map(|&b| b ^ temp_key).collect()
RECURSIVE XorEach(_, _)
XorEach(bytes, temp_key) ==
    IF bytes = <<>> THEN <<>>
    ELSE <<BitXor(Head(bytes), temp_key)>> \o XorEach(Tail(bytes), temp_key)

\* (temp_score, temp_key, plaintext.to_string())
Scored(temp_key, plaintext) == <<count_freq_score(plaintext), temp_key, plaintext>>

\* One trial of the loop body: the candidate for temp_key
Trial(bytes, temp_key) == Scored(temp_key, from_utf8_lossy(XorEach(bytes, temp_key)))

\* if temp_score > best_candidate.0 { best_candidate = (temp_score, ...) }
Keep(best_candidate, t) == IF t[1] > best_candidate[1] THEN t ELSE best_candidate

\* The 16 trials temp_key = first, ..., first + 15, in order, starting from
\* best_candidate: after[n] is best_candidate after n of them.  (Scores are
\* never negative; the test only settles best_candidate before the run.)
SingleCharRun(bytes, first, best_candidate) ==
    IF best_candidate[1] < 0 THEN best_candidate
    ELSE LET after[n \in 0..16] ==
                 IF n = 0 THEN best_candidate
                 ELSE Keep(after[n - 1], Trial(bytes, first + n - 1))
         IN  after[16]

\* let mut best_candidate = (0_f64, 0_u8, "".to_owned());
\* for temp_key in 0..=255 { ... }, as 16 consecutive runs of 16 keys:
\* after[r] is best_candidate after the trials of temp_key < 16 * r
SingleCharLoop(bytes) ==
    LET after[r \in 0..16] ==
            IF r = 0 THEN <<0, 0, <<>>>>
            ELSE SingleCharRun(bytes, (r - 1) * 16, after[r - 1])
    IN  after[16]

\* break_single_char_xor keeping the last of the best-scoring keys
break_single_char_xor_last(bytes) ==
    LET scored == {Trial(bytes, k) : k \in 0..255}
        best   == {t \in scored : \A u \in scored : t[1] >= u[1]}
    IN  IF bytes = <<>> THEN <<0, 255, <<>>>>
        ELSE CHOOSE t \in best : \A u \in best : t[2] >= u[2]

\* Returns <<score, key, plaintext>>
break_single_char_xor(bytes) == SingleCharLoop(bytes)

----------------------------------------------------------------------------
(* Caller of break_single_char_xor *)

MaxSingleLen == 3

\* 'E', 'e', and the two bytes of U+00E9
SingleBytes == {69, 101, 195, 169}

SingleInputs == {[bytes |-> b] : b \in SeqsOf(SingleBytes, 0, MaxSingleLen)}

InitSingle ==
    /\ pc = "ready"
    /\ fn = "none"
    /\ args \in SingleInputs
    /\ ret = NoRet

CallBreakSingleCharXor ==
    /\ pc = "ready"
    /\ pc' = "done"
    /\ fn' = "break_single_char_xor"
    /\ ret' = Ok(break_single_char_xor(args.bytes))
    /\ UNCHANGED args

NextSingle == CallBreakSingleCharXor

SpecSingle == InitSingle /\ [][NextSingle]_vars

\* The decode of a ciphertext under a key, and its score
DecodeUnder(bytes, k) == from_utf8_lossy(XorEach(bytes, k))

ScoreUnder(bytes, k) == count_freq_score(DecodeUnder(bytes, k))

\* The greatest member of a set of numbers
Greatest(S) == CHOOSE x \in S : \A y \in S : x >= y

Least(S) == CHOOSE x \in S : \A y \in S : x <= y

\* The least key of the pairs <<score, key>> that have the score given
LeastKeyScoring(scored, score) == Least({p[2] : p \in {q \in scored : q[1] = score}})

LowestBestKeyOf(scored) == LeastKeyScoring(scored, Greatest({p[1] : p \in scored}))

\* The lowest key whose decode has the greatest score of the 256 keys
LowestBestKey(bytes) == LowestBestKeyOf({<<ScoreUnder(bytes, k), k>> : k \in 0..255})

\* C3: break_single_char_xor returns (score, key, text): key is the lowest key
\* of 0..255 whose lenient decode has the greatest score, score is that score,
\* text is the decode under key; the empty ciphertext gives score 0, key 0.
C3_LowestBestKey ==
    (pc = "done" /\ fn = "break_single_char_xor")
        => LET k == LowestBestKey(args.bytes)
           IN  /\ ~ret.panicked
               /\ ret.val[2] = k
               /\ ret.val[1] = ScoreUnder(args.bytes, k)
               /\ ret.val[3] = DecodeUnder(args.bytes, k)
               /\ args.bytes = <<>> => (ret.val[1] = 0 /\ ret.val[2] = 0)

\* 'E','e': keys 0 and 32 both decode to the best score; key 0 is returned
C3_Witness ==
    /\ pc = "done" /\ fn = "break_single_char_xor"
    /\ args.bytes = <<69, 101>>
    /\ ScoreUnder(args.bytes, 0) = ScoreUnder(args.bytes, 32)
    /\ ret.val = <<25404, 0, <<69, 101>>>>

----------------------------------------------------------------------------
(* repeat_key, transpose_blocks, break_repeating_key_xor *)

\* key.chars().cycle().take(size).collect::<String>().into_bytes()
\* (the cycle of an empty key yields nothing)
repeat_key(size, key) ==
    IF key = <<>> THEN <<>>
    ELSE into_bytes([i \in 1..size |-> key[((i - 1) % Len(key)) + 1]])

\* slice::chunks_exact(n): the whole blocks only
chunks_exact(data, n) ==
    [j \in 1..(Len(data) \div n) |-> SubSeq(data, (j - 1) * n + 1, j * n)]

\* slice::chunks(n), n >= 1: consecutive blocks of n, the last one shorter
\* when n does not divide the length
chunks(data, n) ==
    [j \in 1..((Len(data) + n - 1) \div n) |->
        SubSeq(data, (j - 1) * n + 1, Min(j * n, Len(data)))]

IndexOutOfBounds == "index out of bounds"

\* The bytes block[i] of the blocks that have one, in block order
RECURSIVE Column(_, _)
Column(blocks, i) ==
    IF blocks = <<>> THEN <<>>
    ELSE (IF i <= Len(Head(blocks)) THEN <<Head(blocks)[i]>> ELSE <<>>)
         \o Column(Tail(blocks), i)

\* vec![Vec::new(); blocks[0].len()], then transposed[i].push(byte) for the
\* bytes of every block: blocks[0] of no blocks, and transposed[i] of a block
\* longer than the first, are out of bounds
transpose_blocks(blocks) ==
    IF blocks = <<>> THEN Panic(IndexOutOfBounds)
    ELSE IF \E j \in 1..Len(blocks) : Len(blocks[j]) > Len(blocks[1])
    THEN Panic(IndexOutOfBounds)
    ELSE Ok([i \in 1..Len(blocks[1]) |-> Column(blocks, i)])

\* Lines 143-150: the key bytes, one per transposed block
key_bytes_of(keysize, ciphertext_bytes) ==
    LET transposed_blocks == transpose_blocks(chunks(ciphertext_bytes, keysize))
    IN  IF transposed_blocks.panicked THEN transposed_blocks
        ELSE Ok([i \in 1..Len(transposed_blocks.val) |->
                    break_single_char_xor(transposed_blocks.val[i])[2]])

\* Line 152: the repeated key, through the key as a string
repeated_key_of(size, key_bytes) ==
    LET key == bytes_to_plaintext(key_bytes)
    IN  IF key.panicked THEN key ELSE Ok(repeat_key(size, key.val))

\* Returns <<key_bytes, plaintext>>
break_repeating_key_xor(keysize, ciphertext_bytes) ==
    LET key_bytes == key_bytes_of(keysize, ciphertext_bytes)
    IN  IF key_bytes.panicked THEN key_bytes
        ELSE
        LET repeated_key == repeated_key_of(Len(ciphertext_bytes), key_bytes.val)
        IN  IF repeated_key.panicked THEN repeated_key
            ELSE
            LET x == fixed_xor(ciphertext_bytes, repeated_key.val)
            IN  IF x.panicked THEN x
                ELSE
                LET plaintext == bytes_to_plaintext(x.val)
                IN  IF plaintext.panicked THEN plaintext
                    ELSE Ok(<<key_bytes.val, plaintext.val>>)

----------------------------------------------------------------------------
(* Caller of break_repeating_key_xor *)

MaxRepeatLen == 3

MaxRepeatKeysize == 3

\* 'E', 'e', and two bytes whose best keys are the bytes of U+00E9
RepeatBytes == {69, 101, 227, 137}

RepeatInputs ==
    {[keysize |-> k, ciphertext_bytes |-> c] :
        k \in 1..MaxRepeatKeysize, c \in SeqsOf(RepeatBytes, 0, MaxRepeatLen)}

InitRepeat ==
    /\ pc = "ready"
    /\ fn = "none"
    /\ args \in RepeatInputs
    /\ ret = NoRet

CallBreakRepeatingKeyXor ==
    /\ pc = "ready"
    /\ pc' = "done"
    /\ fn' = "break_repeating_key_xor"
    /\ ret' = break_repeating_key_xor(args.keysize, args.ciphertext_bytes)
    /\ UNCHANGED args

NextRepeat == CallBreakRepeatingKeyXor

SpecRepeat == InitRepeat /\ [][NextRepeat]_vars

RepeatDone == pc = "done" /\ fn = "break_repeating_key_xor"

\* C5: for every keysize >= 1 and every ciphertext, also one shorter than
\* keysize, break_repeating_key_xor does not fault and the key it returns has
\* exactly keysize bytes.
C5_KeyHasKeysizeBytes ==
    RepeatDone => (~ret.panicked /\ Len(ret.val[1]) = args.keysize)

\* C6: the repeated key made for the final decode has the ciphertext's
\* length, its byte at position i is key[i mod keysize], and the plaintext
\* bytes are ciphertext[i] XOR key[i mod keysize].
C6_RepeatedKeyCyclesKeyBytes ==
    (RepeatDone /\ args.ciphertext_bytes # <<>>)
        => LET c   == args.ciphertext_bytes
               key == key_bytes_of(args.keysize, c).val
               rk  == repeated_key_of(Len(c), key)
           IN  /\ ~rk.panicked
               /\ Len(rk.val) = Len(c)
               /\ \A i \in 1..Len(c) : rk.val[i] = key[((i - 1) % args.keysize) + 1]
               /\ ~ret.panicked =>
                  into_bytes(ret.val[2]) =
                    [i \in 1..Len(c) |-> BitXor(c[i], key[((i - 1) % args.keysize) + 1])]

\* The bytes of the ciphertext at positions i, i + keysize, i + 2*keysize, ...
\* (i counted from 1), in ciphertext order
ColumnOf(c, keysize, i) ==
    LET n == IF i > Len(c) THEN 0 ELSE ((Len(c) - i) \div keysize) + 1
    IN  [j \in 1..n |-> c[i + (j - 1) * keysize]]

\* C10 for the ciphertext c, given the transposed blocks and the key bytes
\* that the code computes
C10Holds(c, keysize, columns, key) ==
    /\ ~columns.panicked /\ ~key.panicked
    /\ Len(key.val) = Len(columns.val)
    /\ Len(key.val) >= 1
    /\ \A i \in 1..Len(key.val) :
          /\ columns.val[i] = ColumnOf(c, keysize, i)
          /\ key.val[i] = LowestBestKey(ColumnOf(c, keysize, i))
    /\ SumSeq([i \in 1..Len(columns.val) |-> Len(columns.val[i])]) = Len(c)
    /\ \A i \in (Len(key.val) + 1)..keysize : ColumnOf(c, keysize, i) = <<>>
    /\ ~ret.panicked => ret.val[1] = key.val

\* C10: for a non-empty ciphertext, key byte i is the key that
\* break_single_char_xor returns on column i (the bytes at positions i,
\* i + keysize, ... that exist, a short final block reaching only its own
\* columns), the columns hold every ciphertext byte exactly once, and a call
\* that returns, returns these key bytes.
C10_KeyByteIsBestKeyOfColumn ==
    (RepeatDone /\ args.ciphertext_bytes # <<>>)
        => C10Holds(args.ciphertext_bytes, args.keysize,
                    transpose_blocks(chunks(args.ciphertext_bytes, args.keysize)),
                    key_bytes_of(args.keysize, args.ciphertext_bytes))

\* keysize 2 on 'E','E','e': the short final block reaches column 1 only
C10_Witness ==
    /\ RepeatDone /\ ~ret.panicked
    /\ args.keysize = 2 /\ args.ciphertext_bytes = <<69, 69, 101>>
    /\ ColumnOf(args.ciphertext_bytes, 2, 1) = <<69, 101>>
    /\ ColumnOf(args.ciphertext_bytes, 2, 2) = <<69>>
    /\ ret.val[1] = <<0, 101>>

----------------------------------------------------------------------------
(* pkcs7_padding *)

RemainderByZero == "attempt to calculate the remainder with a divisor of zero"

SubtractOverflow == "attempt to subtract with overflow"

\* vec![elem; n]
Repeat(elem, n) == [i \in 1..n |-> elem]

\* pkcs7_padding adding nothing to an input that fills its last block
pkcs7_padding_no_full_block(block_size, input_text) ==
    IF block_size = 0 THEN Panic(RemainderByZero)
    ELSE LET padding_size == (block_size - (Len(input_text) % block_size)) % block_size
         IN  Ok(input_text \o Repeat(padding_size, padding_size))

\* block_size: u8; (len % block_size as usize) as u8 keeps the low 8 bits
pkcs7_padding(block_size, input_text) ==
    IF block_size = 0 THEN Panic(RemainderByZero)
    ELSE LET rem == (Len(input_text) % block_size) % 256
         IN  IF block_size - rem < 0 THEN Panic(SubtractOverflow)
             ELSE LET padding_size == block_size - rem
                  IN  Ok(input_text \o Repeat(padding_size, padding_size))

----------------------------------------------------------------------------
(* Caller of pkcs7_padding *)

MaxPadLen == 4

\* u8 block sizes: the least, small ones, the tests' 16 and 32, the greatest
BlockSizes == {0, 1, 2, 3, 16, 32, 255}

PadBytes == {89, 3}

\* "YELLOW SUB" and "YELLOW SUBMARINE" as bytes (tests::test_pkcs7_padding)
test_1 == <<89, 69, 76, 76, 79, 87, 32, 83, 85, 66>>

test_2 == <<89, 69, 76, 76, 79, 87, 32, 83, 85, 66, 77, 65, 82, 73, 78, 69>>

PadInputs ==
    {[block_size |-> b, input_text |-> t] :
        b \in BlockSizes, t \in SeqsOf(PadBytes, 0, MaxPadLen) \cup {test_1, test_2}}

InitPad ==
    /\ pc = "ready"
    /\ fn = "none"
    /\ args \in PadInputs
    /\ ret = NoRet

CallPkcs7Padding ==
    /\ pc = "ready"
    /\ pc' = "done"
    /\ fn' = "pkcs7_padding"
    /\ ret' = pkcs7_padding(args.block_size, args.input_text)
    /\ UNCHANGED args

NextPad == CallPkcs7Padding

SpecPad == InitPad /\ [][NextPad]_vars

\* C7: for block sizes 1..255, pkcs7_padding returns the input followed by p
\* bytes of value p, p = b - (length mod b): 1 <= p <= b, the output length is
\* a multiple of b, and an input that is a multiple of b gains b bytes of b.
C7_PaddingFillsLastBlock ==
    (pc = "done" /\ fn = "pkcs7_padding" /\ args.block_size \in 1..255)
        => LET b == args.block_size
               n == Len(args.input_text)
               p == b - (n % b)
           IN  /\ ~ret.panicked
               /\ 1 <= p /\ p <= b
               /\ Len(ret.val) = n + p
               /\ Len(ret.val) % b = 0
               /\ \A i \in 1..n : ret.val[i] = args.input_text[i]
               /\ \A i \in (n + 1)..(n + p) : ret.val[i] = p
               /\ n % b = 0 => Len(ret.val) = n + b
               /\ (b = 16 /\ args.input_text = test_1)
                     => ret.val = test_1 \o <<6, 6, 6, 6, 6, 6>>

\* "YELLOW SUBMARINE" at block size 16 gains a full block of 16 bytes of 16
C7_Witness ==
    /\ pc = "done" /\ fn = "pkcs7_padding"
    /\ args.block_size = 16 /\ args.input_text = test_2
    /\ ~ret.panicked
    /\ Len(ret.val) = 32
    /\ \A i \in 17..32 : ret.val[i] = 16

----------------------------------------------------------------------------
(* guess_keysize *)

\* for keysize in 2..=40
KeysizeFirst == 2

KeysizeLast == 40

\* .take(4)
SampledBlocks == 4

UnwrapNone == "called Option::unwrap() on a None value"

\* data.chunks(keysize).take(count).collect(): the first count chunks; the
\* last chunk of the data is shorter when keysize does not divide the length
chunks_take(data, keysize, count) ==
    [j \in 1..Min(count, (Len(data) + keysize - 1) \div keysize) |->
        SubSeq(data, (j - 1) * keysize + 1, Min(j * keysize, Len(data)))]

\* for i in 0..blocks.len() { for j in i+1..blocks.len() { ... } }
\* from the pair (i, j) on; gives <<total_distance, pairs>>
RECURSIVE PairLoop(_, _, _, _, _)
PairLoop(blocks, i, j, total_distance, pairs) ==
    IF i > Len(blocks) THEN Ok(<<total_distance, pairs>>)
    ELSE IF j > Len(blocks) THEN PairLoop(blocks, i + 1, i + 2, total_distance, pairs)
    ELSE LET d == edit_distance(blocks[i], blocks[j])
         IN  IF d.panicked THEN d
             ELSE PairLoop(blocks, i, j + 1, total_distance + d.val, pairs + 1)

\* The distance divided by the number of pairs alone
normalized_distance_per_pair(total_distance, pairs, keysize) ==
    [num |-> total_distance, den |-> pairs]

\* total_distance as f64 / (pairs * keysize) as f64, kept as the fraction:
\* both are integers below 2^53, so the f64 quotients of two fractions compare
\* as the fractions do; 0.0 / 0.0 (den = 0) is NaN
normalized_distance(total_distance, pairs, keysize) ==
    [num |-> total_distance, den |-> pairs * keysize]

IsNaN(x) == x.den = 0

\* a.partial_cmp(&b) == Some(Less), for a and b not NaN
Less(a, b) == a.num * b.den < b.num * a.den

\* One pass of the loop body for keysize: Ok(<<keysize, normalized_distance>>)
Candidate(data, keysize) ==
    LET blocks == chunks_take(data, keysize, SampledBlocks)
        sums   == PairLoop(blocks, 1, 2, 0, 0)
    IN  IF sums.panicked THEN sums
        ELSE Ok(<<keysize, normalized_distance(sums.val[1], sums.val[2], keysize)>>)

\* for keysize in 2..=40 { ...; distances.push((keysize, normalized_distance)) }
RECURSIVE KeysizeLoop(_, _, _)
KeysizeLoop(data, keysize, distances) ==
    IF keysize > KeysizeLast THEN Ok(distances)
    ELSE LET c == Candidate(data, keysize)
         IN  IF c.panicked THEN c
             ELSE KeysizeLoop(data, keysize + 1, Append(distances, c.val))

\* Insertion of e after the entries that are not greater: a stable sort
RECURSIVE InsertStable(_, _)
InsertStable(sorted, e) ==
    IF sorted = <<>> THEN <<e>>
    ELSE IF Less(e[2], Head(sorted)[2]) THEN <<e>> \o sorted
    ELSE <<Head(sorted)>> \o InsertStable(Tail(sorted), e)

RECURSIVE SortStable(_, _)
SortStable(rest, sorted) ==
    IF rest = <<>> THEN sorted
    ELSE SortStable(Tail(rest), InsertStable(sorted, Head(rest)))

\* distances.sort_by(|a, b| a.1.partial_cmp(&b.1).unwrap()): a stable sort;
\* sorting two or more entries compares every entry with another one, and
\* partial_cmp is None, so unwrap panics, when one of the two is NaN
sort_by(distances) ==
    IF Len(distances) >= 2 /\ \E n \in 1..Len(distances) : IsNaN(distances[n][2])
    THEN Panic(UnwrapNone)
    ELSE Ok(SortStable(distances, <<>>))

guess_keysize(data) ==
    LET distances == KeysizeLoop(data, KeysizeFirst, <<>>)
    IN  IF distances.panicked THEN distances
        ELSE LET sorted == sort_by(distances.val)
             IN  IF sorted.panicked THEN sorted
                 ELSE IF sorted.val = <<>> THEN Panic(IndexOutOfBounds)
                 ELSE Ok(sorted.val[1][1])

----------------------------------------------------------------------------
(* Caller of guess_keysize *)

MaxShortLen == 4

MaxSeedLen == 3

KeysizeBytes == {0, 255}

SeedBytes == {15, 255}

\* Lengths around 4 * 40, the least length with four whole blocks of 40
LongLens == {159, 160, 163}

\* The seed repeated up to the length n
Periodic(seed, n) == [i \in 1..n |-> seed[((i - 1) % Len(seed)) + 1]]

\* The bytes m, 2m, 3m, ... (mod 256)
Multiples(m, n) == [i \in 1..n |-> (i * m) % 256]

KeysizeInputs ==
    {[data |-> d] : d \in SeqsOf(KeysizeBytes, 0, MaxShortLen)}
    \cup {[data |-> Periodic(seed, n)] :
            seed \in SeqsOf(SeedBytes, 1, MaxSeedLen), n \in LongLens}
    \cup {[data |-> Multiples(m, n)] : m \in {1, 3, 7, 37, 85}, n \in LongLens}

InitKeysize ==
    /\ pc = "ready"
    /\ fn = "none"
    /\ args \in KeysizeInputs
    /\ ret = NoRet

CallGuessKeysize ==
    /\ pc = "ready"
    /\ pc' = "done"
    /\ fn' = "guess_keysize"
    /\ ret' = guess_keysize(args.data)
    /\ UNCHANGED args

NextKeysize == CallGuessKeysize

SpecKeysize == InitKeysize /\ [][NextKeysize]_vars

KeysizeDone == pc = "done" /\ fn = "guess_keysize"

Keysizes == KeysizeFirst..KeysizeLast

\* The a-th whole block of keysize bytes
WholeBlock(data, keysize, a) == SubSeq(data, (a - 1) * keysize + 1, a * keysize)

\* The sum of the distances over the unordered pairs of the first four blocks
PairDistanceSum(data, keysize) ==
    LET P == {p \in (1..4) \X (1..4) : p[1] < p[2]}
        D == {<<p, DifferingBits(WholeBlock(data, keysize, p[1]),
                                 WholeBlock(data, keysize, p[2]))>> : p \in P}
        RECURSIVE Total(_)
        Total(S) == IF S = {} THEN 0
                    ELSE LET x == CHOOSE x \in S : TRUE IN x[2] + Total(S \ {x})
    IN  Total(D)

\* C4: on a ciphertext with four whole blocks for every keysize of 2..40,
\* guess_keysize returns the keysize of the least normalized distance (the
\* sum over the 6 pairs of the first four blocks, over 6 * keysize), and the
\* least keysize among those of the least normalized distance.
C4_SmallestNormalizedDistance ==
    (KeysizeDone /\ Len(args.data) >= 4 * KeysizeLast)
        => LET sums == {<<k, PairDistanceSum(args.data, k)>> : k \in Keysizes}
               \* a[2] / (6 * a[1]) <= b[2] / (6 * b[1])
               Leq(a, b) == a[2] * b[1] <= b[2] * a[1]
               best == {a \in sums : \A b \in sums : Leq(a, b)}
           IN  /\ ~ret.panicked
               /\ \E a \in best : a[1] = ret.val /\ \A b \in best : a[1] <= b[1]

\* A ciphertext of period 3: the keysizes 3, 6, ..., 39 all have distance 0
\* and 3 is returned
C4_Witness ==
    /\ KeysizeDone /\ ~ret.panicked
    /\ args.data = Periodic(<<15, 255, 255>>, 160)
    /\ PairDistanceSum(args.data, 3) = 0
    /\ PairDistanceSum(args.data, 6) = 0
    /\ PairDistanceSum(args.data, 2) > 0
    /\ ret.val = 3

\* The blocks guess_keysize samples for a keysize
Sampled(data, keysize) == chunks_take(data, keysize, SampledBlocks)

\* C8: for every ciphertext and every keysize of 2..40 a final partial block
\* is discarded: every block given to edit_distance has keysize bytes, and
\* guess_keysize never fails with the length mismatch.
C8_PartialBlockDiscarded ==
    KeysizeDone
        => /\ \A k \in Keysizes :
                 LET blocks == Sampled(args.data, k)
                 IN  Len(blocks) >= 2 => \A j \in 1..Len(blocks) : Len(blocks[j]) = k
           /\ ~(ret.panicked /\ ret.val = LengthsNotEqual)

\* C9: a keysize with fewer than two sampled blocks adds no normalized
\* distance to the ranking: it is not among the sorted candidates, it is not
\* the keysize returned, and its undefined ratio does not make the call fail.
C9_TooFewBlocksExcluded ==
    (KeysizeDone /\ \E k \in Keysizes : Len(Sampled(args.data, k)) < 2)
        => /\ ~(ret.panicked /\ ret.val = UnwrapNone)
           /\ ~ret.panicked => Len(Sampled(args.data, ret.val)) >= 2

=============================================================================
